---- MODULE Spec2Model ----
(***************************************************************************)
(* Model of the document hierarchy builder of src/main.py                  *)
(* (EnhancedDocumentNode, EnhancedDocumentHierarchyBuilder).               *)
(*                                                                         *)
(* Nodes live in a heap `nodes` (id -> record); Python lists of node       *)
(* references are sequences of ids.  A node id is the pair                 *)
(* <<page, reading_order>> the code derives the id string from; the        *)
(* synthetic root "document_root" is the pair <<0, -1>> of its page and    *)
(* reading_order.  Labels are sequences of tokens ("sub_sub_sec" is        *)
(* <<"sub_", "sub_", "sec">>) so that startswith('sub_') and count('sub_') *)
(* are computed; texts and summaries are sequences of characters, and a    *)
(* literal fragment of an f-string is one token.  bbox and embeddings are  *)
(* carried through by the code untouched and are left out.                 *)
(***************************************************************************)
EXTENDS Integers, Sequences, FiniteSets, TLC

\* ------------------------------------------------------------------ bounds
MaxElems == 3
MaxOrder == 2
MaxSumElems == 3
MaxPasses == 2
Pages == {1, 2}

\* ------------------------------------------------------------------ labels
Title == <<"title">>
Sec == <<"sec">>
SubSec == <<"sub_", "sec">>
SubSubSec == <<"sub_", "sub_", "sec">>
Document == <<"document">>
Para == <<"para">>
Fig == <<"fig">>
Tab == <<"tab">>
Cap == <<"cap">>
List == <<"list">>
ListGroup == <<"list_group">>
Figure == <<"figure">>
Table == <<"table">>
Header == <<"header">>

ContentLabels ==
    {Para, List, ListGroup, Figure, Table, Cap, Fig, Tab,
     <<"fnote">>, <<"foot">>, <<"author">>}

InputLabels ==
    {Title, Sec, SubSec, SubSubSec, Document, Para, Fig, Tab, Cap, List, Header}

None == <<"None">>
NoNode == <<>>
DocumentRootId == <<0, -1>>

\* ------------------------------------------------------------------ helpers
KeyLess(a, b) == a[1] < b[1] \/ (a[1] = b[1] /\ a[2] < b[2])

Range(s) == {s[i] : i \in DOMAIN s}

\* label.startswith('sub_')
StartsWithSub(label) == Len(label) > 0 /\ label[1] = "sub_"

\* label.count('sub_')
CountSub(label) == Cardinality({i \in DOMAIN label : label[i] = "sub_"})

\* mutant: a label that is not structural gets level 0
determine_node_level_dynamic_DefaultZero(label) ==
    IF label = Title THEN 0
    ELSE IF label = Sec THEN 1
    ELSE IF StartsWithSub(label) THEN CountSub(label) + 1
    ELSE 0

determine_node_level_dynamic(label) ==
    IF label = Title THEN 0
    ELSE IF label = Sec THEN 1
    ELSE IF StartsWithSub(label) THEN CountSub(label) + 1
    ELSE -1

is_structural(n) ==
    n.label \in {Title, Sec} \/ StartsWithSub(n.label) \/ n.label = Document

is_content(n) == n.label \in ContentLabels

create_node_from_element(element) ==
    [id |-> <<element.page, element.reading_order>>,
     label |-> element.label,
     text |-> element.text,
     level |-> determine_node_level_dynamic(element.label),
     page |-> element.page,
     reading_order |-> element.reading_order,
     summary |-> None,
     merged_elements |-> <<>>,
     parent |-> NoNode,
     children |-> <<>>,
     content_elements |-> <<>>]

Snapshot(n) ==
    [label |-> n.label, text |-> n.text, page |-> n.page,
     reading_order |-> n.reading_order]

\* mutant: the snapshot of the surviving node is taken after its text and label were rewritten
merge_with_LateSnapshot(self, other) ==
    LET r == IF self.label = Fig /\ other.label = Cap
             THEN [self EXCEPT !.text = other.text \o <<" [IMAGE: ">> \o self.text \o <<"]">>,
                               !.label = Figure]
             ELSE IF self.label = Tab /\ other.label = Cap
             THEN [self EXCEPT !.text = other.text \o <<" [TABLE: ">> \o self.text \o <<"]">>,
                               !.label = Table]
             ELSE IF self.label = List
             THEN [self EXCEPT !.text = self.text \o <<"\n">> \o other.text,
                               !.label = ListGroup]
             ELSE self
        m0 == IF r.merged_elements = <<>> THEN <<Snapshot(r)>> ELSE r.merged_elements
    IN  [r EXCEPT !.merged_elements = Append(m0, Snapshot(other))]

merge_with(self, other) ==
    LET m0 == IF self.merged_elements = <<>> THEN <<Snapshot(self)>>
              ELSE self.merged_elements
        m1 == Append(m0, Snapshot(other))
        s1 == [self EXCEPT !.merged_elements = m1]
    IN  IF self.label = Fig /\ other.label = Cap
        THEN [s1 EXCEPT !.text = other.text \o <<" [IMAGE: ">> \o self.text \o <<"]">>,
                        !.label = Figure]
        ELSE IF self.label = Tab /\ other.label = Cap
        THEN [s1 EXCEPT !.text = other.text \o <<" [TABLE: ">> \o self.text \o <<"]">>,
                        !.label = Table]
        ELSE IF self.label = List
        THEN [s1 EXCEPT !.text = self.text \o <<"\n">> \o other.text,
                        !.label = ListGroup]
        ELSE s1

\* list.sort(key=lambda x: (x.page, x.reading_order)): a stable insertion sort
RECURSIVE InsertByKey(_, _, _)
InsertByKey(sorted, id, heap) ==
    IF sorted = <<>> THEN <<id>>
    ELSE LET last == sorted[Len(sorted)] IN
         IF KeyLess(<<heap[id].page, heap[id].reading_order>>,
                    <<heap[last].page, heap[last].reading_order>>)
         THEN Append(InsertByKey(SubSeq(sorted, 1, Len(sorted) - 1), id, heap), last)
         ELSE Append(sorted, id)

\* mutant: the listing order of the input is kept
SortByKey_ListingOrder(ids, heap) == ids

RECURSIVE SortByKey(_, _)
SortByKey(ids, heap) ==
    IF ids = <<>> THEN <<>>
    ELSE InsertByKey(SortByKey(SubSeq(ids, 1, Len(ids) - 1), heap), ids[Len(ids)], heap)

\* mutant: whatever is not structural counts as content
RECURSIVE Filter_NotStructural(_, _, _)
Filter_NotStructural(ids, heap, structural) ==
    IF ids = <<>> THEN <<>>
    ELSE LET rest == Filter_NotStructural(Tail(ids), heap, structural)
             n == heap[Head(ids)]
         IN  IF (structural /\ is_structural(n)) \/ (~structural /\ ~is_structural(n))
             THEN <<Head(ids)>> \o rest ELSE rest

\* the list comprehensions of lines 354-355
RECURSIVE Filter(_, _, _)
Filter(ids, heap, structural) ==
    IF ids = <<>> THEN <<>>
    ELSE LET rest == Filter(Tail(ids), heap, structural)
             n == heap[Head(ids)]
         IN  IF (structural /\ is_structural(n)) \/ (~structural /\ is_content(n))
             THEN <<Head(ids)>> \o rest ELSE rest

\* mutant: the pages of the two elements are not compared
RECURSIVE FigCapLoop_AnyPage(_, _, _, _)
FigCapLoop_AnyPage(elements, i, merged, heap) ==
    IF i > Len(elements) THEN [list |-> merged, heap |-> heap]
    ELSE LET current == elements[i] IN
         IF /\ i + 1 <= Len(elements)
            /\ heap[current].label \in {Fig, Tab}
            /\ heap[elements[i + 1]].label = Cap
         THEN FigCapLoop_AnyPage(elements, i + 2, Append(merged, current),
                  [heap EXCEPT ![current] = merge_with(heap[current], heap[elements[i + 1]])])
         ELSE FigCapLoop_AnyPage(elements, i + 1, Append(merged, current), heap)

\* the while loop of merge_figure_caption_pairs (lines 292-307)
RECURSIVE FigCapLoop(_, _, _, _)
FigCapLoop(elements, i, merged, heap) ==
    IF i > Len(elements) THEN [list |-> merged, heap |-> heap]
    ELSE LET current == elements[i] IN
         IF /\ i + 1 <= Len(elements)
            /\ heap[current].label \in {Fig, Tab}
            /\ heap[elements[i + 1]].label = Cap
            /\ heap[current].page = heap[elements[i + 1]].page
         THEN FigCapLoop(elements, i + 2, Append(merged, current),
                  [heap EXCEPT ![current] = merge_with(heap[current], heap[elements[i + 1]])])
         ELSE FigCapLoop(elements, i + 1, Append(merged, current), heap)

merge_figure_caption_pairs(elements, heap) == FigCapLoop(elements, 1, <<>>, heap)

\* mutant: contiguity is measured from the first element of the run
RECURSIVE ListRun_FromFirst(_, _, _, _)
ListRun_FromFirst(elements, i, j, heap) ==
    IF /\ j <= Len(elements)
       /\ heap[elements[j]].label = List
       /\ heap[elements[j]].page = heap[elements[i]].page
       /\ heap[elements[j]].reading_order = heap[elements[i]].reading_order + 1
    THEN ListRun_FromFirst(elements, i, j + 1,
             [heap EXCEPT ![elements[i]] = merge_with(heap[elements[i]], heap[elements[j]])])
    ELSE [j |-> j, heap |-> heap]

\* mutant: the page of the next list is not compared
RECURSIVE ListRun_AnyPage(_, _, _, _)
ListRun_AnyPage(elements, i, j, heap) ==
    IF /\ j <= Len(elements)
       /\ heap[elements[j]].label = List
       /\ heap[elements[j]].reading_order = heap[elements[j - 1]].reading_order + 1
    THEN ListRun_AnyPage(elements, i, j + 1,
             [heap EXCEPT ![elements[i]] = merge_with(heap[elements[i]], heap[elements[j]])])
    ELSE [j |-> j, heap |-> heap]

\* the inner while of merge_consecutive_lists; current is elements[i]
RECURSIVE ListRun(_, _, _, _)
ListRun(elements, i, j, heap) ==
    IF /\ j <= Len(elements)
       /\ heap[elements[j]].label = List
       /\ heap[elements[j]].page = heap[elements[i]].page
       /\ heap[elements[j]].reading_order = heap[elements[j - 1]].reading_order + 1
    THEN ListRun(elements, i, j + 1,
             [heap EXCEPT ![elements[i]] = merge_with(heap[elements[i]], heap[elements[j]])])
    ELSE [j |-> j, heap |-> heap]

\* mutant: the outer loop goes on right after the first list of the run
RECURSIVE ListLoop_KeepsAbsorbed(_, _, _, _)
ListLoop_KeepsAbsorbed(elements, i, merged, heap) ==
    IF i > Len(elements) THEN [list |-> merged, heap |-> heap]
    ELSE IF heap[elements[i]].label = List
    THEN LET r == ListRun(elements, i, i + 1, heap)
         IN  ListLoop_KeepsAbsorbed(elements, i + 1, Append(merged, elements[i]), r.heap)
    ELSE ListLoop_KeepsAbsorbed(elements, i + 1, Append(merged, elements[i]), heap)

\* the outer while of merge_consecutive_lists (lines 316-336)
RECURSIVE ListLoop(_, _, _, _)
ListLoop(elements, i, merged, heap) ==
    IF i > Len(elements) THEN [list |-> merged, heap |-> heap]
    ELSE IF heap[elements[i]].label = List
    THEN LET r == ListRun(elements, i, i + 1, heap)
         IN  ListLoop(elements, r.j, Append(merged, elements[i]), r.heap)
    ELSE ListLoop(elements, i + 1, Append(merged, elements[i]), heap)

merge_consecutive_lists(elements, heap) == ListLoop(elements, 1, <<>>, heap)

\* mutant: the last title of the list is taken
RECURSIVE FirstTitle_Last(_, _)
FirstTitle_Last(ids, heap) ==
    IF ids = <<>> THEN NoNode
    ELSE IF heap[ids[Len(ids)]].label = Title THEN ids[Len(ids)]
    ELSE FirstTitle_Last(SubSeq(ids, 1, Len(ids) - 1), heap)

\* next((node for node in structural_nodes if node.label == 'title'), None)
RECURSIVE FirstTitle(_, _)
FirstTitle(ids, heap) ==
    IF ids = <<>> THEN NoNode
    ELSE IF heap[Head(ids)].label = Title THEN Head(ids)
    ELSE FirstTitle(Tail(ids), heap)

\* list.remove(x): drops the first occurrence
RECURSIVE RemoveFirst(_, _)
RemoveFirst(ids, x) ==
    IF ids = <<>> THEN <<>>
    ELSE IF Head(ids) = x THEN Tail(ids)
    ELSE <<Head(ids)>> \o RemoveFirst(Tail(ids), x)

SyntheticRoot ==
    [id |-> DocumentRootId,
     label |-> Document,
     text |-> <<"Document Root">>,
     level |-> -1,
     page |-> 0,
     reading_order |-> -1,
     summary |-> None,
     merged_elements |-> <<>>,
     parent |-> NoNode,
     children |-> <<>>,
     content_elements |-> <<>>]

add_child(heap, parent, child) ==
    [heap EXCEPT ![child].parent = parent,
                 ![parent].children = Append(@, child)]

\* mutant: the content node is also listed under the node it was found at before
add_content_twice(heap, parent, content) ==
    [heap EXCEPT ![content].parent = parent,
                 ![parent].content_elements = Append(Append(@, content), content)]

add_content(heap, parent, content) ==
    [heap EXCEPT ![content].parent = parent,
                 ![parent].content_elements = Append(@, content)]

\* mutant: the search gives up when the level right below the node is not open
FindParentLevel_NoSkip(parent_level, lp) ==
    IF parent_level \in DOMAIN lp THEN parent_level ELSE -1

\* the while loop that searches level_parents downward from node.level - 1
RECURSIVE FindParentLevel(_, _)
FindParentLevel(parent_level, lp) ==
    IF parent_level >= 0 /\ parent_level \notin DOMAIN lp
    THEN FindParentLevel(parent_level - 1, lp)
    ELSE parent_level

\* _collect_structural_nodes: pre-order over children
RECURSIVE CollectStructural(_, _)
RECURSIVE CollectChildren(_, _)
CollectStructural(id, heap) ==
    (IF is_structural(heap[id]) \/ heap[id].label = Document THEN <<id>> ELSE <<>>)
        \o CollectChildren(heap[id].children, heap)
CollectChildren(ids, heap) ==
    IF ids = <<>> THEN <<>>
    ELSE CollectStructural(Head(ids), heap) \o CollectChildren(Tail(ids), heap)

\* the inner for loop of _assign_content_as_leaf_nodes, with its break
RECURSIVE ScanBestParent(_, _, _, _, _)
ScanBestParent(all_structural, k, best, c, heap) ==
    IF k > Len(all_structural) THEN best
    ELSE LET s == heap[all_structural[k]] IN
         IF s.page < c.page \/ (s.page = c.page /\ s.reading_order < c.reading_order)
         THEN ScanBestParent(all_structural, k + 1, all_structural[k], c, heap)
         ELSE best

\* ------------------------------------------------------------------ summaries
LeafTruncLen == 100
PromptTruncLen == 200

Whitespace == {" ", "\n", "\t"}

\* s[:n]
Take(s, n) == SubSeq(s, 1, IF Len(s) < n THEN Len(s) ELSE n)

RECURSIVE LStrip(_)
LStrip(s) == IF s # <<>> /\ Head(s) \in Whitespace THEN LStrip(Tail(s)) ELSE s

RECURSIVE RStrip(_)
RStrip(s) ==
    IF s # <<>> /\ s[Len(s)] \in Whitespace THEN RStrip(SubSeq(s, 1, Len(s) - 1)) ELSE s

\* str.strip()
Strip(s) == RStrip(LStrip(s))

\* Python truthiness of an Optional[str]
Falsy(s) == s = None \/ s = <<>>

\* (content or "").strip() on the content of the first choice of the response
ResponseText(content) == Strip(IF content = None THEN <<>> ELSE content)

LeafFallback(n) ==
    <<"Summary unavailable for ">> \o n.label \o <<": ">> \o Take(n.text, LeafTruncLen)
        \o <<"...">>

SectionFallback(n) == <<"Summary unavailable for section ">> \o n.label

\* mutant: a failed call leaves no summary instead of the fallback
generate_section_summary_NoFallback(n, outcome) ==
    IF outcome.raises THEN None ELSE ResponseText(outcome.content)

\* an outcome of client.chat.completions.create: it raises, or it returns a content
generate_leaf_summary(n, outcome) ==
    IF outcome.raises THEN LeafFallback(n) ELSE ResponseText(outcome.content)

generate_section_summary(n, outcome) ==
    IF outcome.raises THEN SectionFallback(n) ELSE ResponseText(outcome.content)

LeafPrompt(n) == [section |-> n.label, content |-> <<n.text>>, subsections |-> <<>>]

\* lines 174-189: what generate_section_summary puts into its prompt
RECURSIVE ContentTexts(_, _)
ContentTexts(ids, heap) ==
    IF ids = <<>> THEN <<>>
    ELSE LET c == heap[Head(ids)]
             line == IF ~Falsy(c.summary)
                     THEN <<"- ">> \o c.label \o <<": ">> \o c.summary
                     ELSE <<"- ">> \o c.label \o <<": ">> \o Take(c.text, PromptTruncLen)
                              \o <<"...">>
         IN  <<line>> \o ContentTexts(Tail(ids), heap)

RECURSIVE ChildSummaries(_, _)
ChildSummaries(ids, heap) ==
    IF ids = <<>> THEN <<>>
    ELSE LET c == heap[Head(ids)]
             rest == ChildSummaries(Tail(ids), heap)
         IN  IF ~Falsy(c.summary)
             THEN <<(<<"- Section '">> \o c.text \o <<"': ">> \o c.summary)>> \o rest
             ELSE rest

SectionPrompt(n, heap) ==
    [section |-> IF Strip(n.text) # <<>> THEN n.label \o <<" - ">> \o n.text ELSE n.label,
     content |-> ContentTexts(n.content_elements, heap),
     subsections |-> ChildSummaries(n.children, heap)]

\* mutant: the node itself comes before its children and its content elements
RECURSIVE PostOrder_NodeFirst(_, _)
RECURSIVE PostOrder_NodeFirstChildren(_, _)
PostOrder_NodeFirstChildren(ids, heap) ==
    IF ids = <<>> THEN <<>>
    ELSE PostOrder_NodeFirst(Head(ids), heap) \o PostOrder_NodeFirstChildren(Tail(ids), heap)
PostOrder_NodeFirst(id, heap) ==
    <<[kind |-> "section", node |-> id]>>
        \o PostOrder_NodeFirstChildren(heap[id].children, heap)
        \o [i \in 1..Len(heap[id].content_elements) |->
               [kind |-> "leaf", node |-> heap[id].content_elements[i]]]

\* the order in which generate_summaries_recursive reaches its two assignments:
\* children first, then the content elements of the node, then the node itself
RECURSIVE PostOrder(_, _)
RECURSIVE PostOrderChildren(_, _)
PostOrder(id, heap) ==
    PostOrderChildren(heap[id].children, heap)
        \o [i \in 1..Len(heap[id].content_elements) |->
               [kind |-> "leaf", node |-> heap[id].content_elements[i]]]
        \o <<[kind |-> "section", node |-> id]>>
PostOrderChildren(ids, heap) ==
    IF ids = <<>> THEN <<>>
    ELSE PostOrder(Head(ids), heap) \o PostOrderChildren(Tail(ids), heap)

\* ------------------------------------------------------------------ serialization
Digits == {"0", "1", "2", "3", "4", "5", "6", "7", "8", "9"}

\* \d+ from position i: the position after the digits
RECURSIVE DigitsEnd(_, _)
DigitsEnd(s, i) == IF i <= Len(s) /\ s[i] \in Digits THEN DigitsEnd(s, i + 1) ELSE i

\* (?:\.\d+)* from position i: the position after the last dotted group
RECURSIVE DottedEnd(_, _)
DottedEnd(s, i) ==
    IF i + 1 <= Len(s) /\ s[i] = "." /\ s[i + 1] \in Digits
    THEN DottedEnd(s, DigitsEnd(s, i + 1))
    ELSE i

\* mutant: a number is recognized only when it has a dotted group
get_section_number_NeedsDot(self) ==
    LET t == Strip(self.text)
        e == DigitsEnd(t, 1)
    IN  IF e = 1 \/ DottedEnd(t, e) = e THEN None ELSE Take(t, DottedEnd(t, e) - 1)

\* re.match(r'^(\d+(?:\.\d+)*)', self.text.strip())
get_section_number(self) ==
    LET t == Strip(self.text)
        e == DigitsEnd(t, 1)
    IN  IF e = 1 THEN None ELSE Take(t, DottedEnd(t, e) - 1)

\* mutant: the merge keys are written for every node
RECURSIVE to_dict_AlwaysFlagged(_, _)
to_dict_AlwaysFlagged(id, heap) ==
    LET self == heap[id]
    IN  [id |-> self.id,
         label |-> self.label,
         text |-> self.text,
         level |-> self.level,
         page |-> self.page,
         reading_order |-> self.reading_order,
         section_number |-> get_section_number(self),
         summary |-> self.summary,
         children |-> [i \in DOMAIN self.children |->
                          to_dict_AlwaysFlagged(self.children[i], heap)],
         content_elements |-> [i \in DOMAIN self.content_elements |->
                                  to_dict_AlwaysFlagged(self.content_elements[i], heap)],
         merged_elements |-> self.merged_elements,
         is_merged |-> TRUE]

\* the dictionary of a node; bbox and embeddings, which the builder only copies or
\* leaves unset, are not carried by the nodes here
RECURSIVE to_dict(_, _)
to_dict(id, heap) ==
    LET self == heap[id]
        result == [id |-> self.id,
                   label |-> self.label,
                   text |-> self.text,
                   level |-> self.level,
                   page |-> self.page,
                   reading_order |-> self.reading_order,
                   section_number |-> get_section_number(self),
                   summary |-> self.summary,
                   children |-> [i \in DOMAIN self.children |->
                                    to_dict(self.children[i], heap)],
                   content_elements |-> [i \in DOMAIN self.content_elements |->
                                            to_dict(self.content_elements[i], heap)]]
    IN  IF self.merged_elements # <<>>
        THEN result @@ [merged_elements |-> self.merged_elements, is_merged |-> TRUE]
        ELSE result

\* ------------------------------------------------------------------ inputs
Chars == <<"a", "b", "c", "d", "e", "f", "g", "h", "i", "j", "k", "l">>

TextOf(key) == <<Chars[(key[1] - 1) * (MaxOrder + 1) + key[2] + 1]>>

\* a text longer than the truncation of the leaf fallback
LongText == [i \in 1..(LeafTruncLen + 1) |-> IF i > LeafTruncLen THEN "z" ELSE "y"]

\* the texts of the documents that are summarized: reading order 1 holds the long one
SumTextOf(key) == IF key[2] = 1 THEN LongText ELSE TextOf(key)

RECURSIVE KeysAscending(_)
KeysAscending(K) ==
    IF K = {} THEN <<>>
    ELSE LET m == CHOOSE x \in K : \A y \in K : x = y \/ KeyLess(x, y)
         IN  <<m>> \o KeysAscending(K \ {m})

Reverse(s) == [i \in 1..Len(s) |-> s[Len(s) + 1 - i]]

Keys == Pages \X (0..MaxOrder)

DocOf(K, f, summarized) ==
    LET ks == KeysAscending(K)
    IN  [i \in 1..Len(ks) |->
            [label |-> f[ks[i]],
             text |-> IF summarized THEN SumTextOf(ks[i]) ELSE TextOf(ks[i]),
             page |-> ks[i][1], reading_order |-> ks[i][2]]]

KeySets == {S \in SUBSET Keys : Cardinality(S) <= MaxElems}

\* labels of the documents that are also listed in descending order
ListingLabels == {Title, Sec, SubSec, Para, List}

\* spec.md section 8, end-to-end example
EndToEndExample ==
    <<[label |-> Title, text |-> <<"D", "o", "c">>, page |-> 1, reading_order |-> 0],
      [label |-> Sec, text |-> <<"1", " ", "I", "n", "t", "r", "o">>, page |-> 1, reading_order |-> 1],
      [label |-> Para, text |-> <<"h", "e", "l", "l", "o">>, page |-> 1, reading_order |-> 2],
      [label |-> Fig, text |-> <<"i", "m", "g", "1">>, page |-> 1, reading_order |-> 3],
      [label |-> Cap, text |-> <<"F", "i", "g", "u", "r", "e", " ", "1", ":", " ", "x">>,
       page |-> 1, reading_order |-> 4]>>

\* two pairs on one page: a figure and a table, each with its caption
FigureTableExample ==
    <<[label |-> Sec, text |-> <<"2", " ", "D", "a", "t", "a">>, page |-> 1, reading_order |-> 0],
      [label |-> Fig, text |-> <<"i", "m", "g">>, page |-> 1, reading_order |-> 1],
      [label |-> Cap, text |-> <<"F", "1">>, page |-> 1, reading_order |-> 2],
      [label |-> Tab, text |-> <<"t", "b", "l">>, page |-> 1, reading_order |-> 3],
      [label |-> Cap, text |-> <<"T", "1">>, page |-> 1, reading_order |-> 4]>>

\* pairs and list runs within and across pages
CrossPageExample ==
    <<[label |-> Fig, text |-> <<"i", "m", "g">>, page |-> 1, reading_order |-> 0],
      [label |-> Cap, text |-> <<"F", "1">>, page |-> 1, reading_order |-> 1],
      [label |-> Tab, text |-> <<"t", "b", "l">>, page |-> 1, reading_order |-> 2],
      [label |-> Cap, text |-> <<"T", "1">>, page |-> 2, reading_order |-> 0],
      [label |-> List, text |-> <<"x">>, page |-> 2, reading_order |-> 1],
      [label |-> List, text |-> <<"y">>, page |-> 2, reading_order |-> 2],
      [label |-> List, text |-> <<"z">>, page |-> 2, reading_order |-> 4],
      [label |-> List, text |-> <<"w">>, page |-> 3, reading_order |-> 5]>>

\* ------------------------------------------------------------------ state
VARIABLES
    no_summaries,       \* args.no_summaries of main()
    OPENAI_API_KEY,     \* whether the environment variable is set
    json_data,          \* the (page_num, element) pairs in the order the input lists them
    enable_summaries,
    pc,                 \* position in build_enhanced_hierarchy
    nodes,              \* heap: id -> EnhancedDocumentNode
    all_elements,
    structural_nodes,
    content_nodes,
    root,
    level_parents,
    idx,                \* index of the running for loop, or position in the post-order
    pass_no,            \* how many times generate_summaries_recursive(root) was started
    calls,              \* the Summarizer calls made so far, in order
    \* BackgroundTaskManager (src/api/managers/task_manager.py) and its temporary files
    tasks,              \* self.tasks: the TaskInfo of task i, in the order of submission
    processing_queue,   \* self.processing_queue: the task_data put and not yet taken
    worker_task,        \* "none", "done", or the await the _worker coroutine is at
    task_data,          \* the task the _worker holds, NoTask when it holds none
    worker_running,     \* self._worker_running
    tasks_processed,    \* self._tasks_processed
    max_workers,        \* self.max_workers
    executor,           \* self.executor: "none", "running" or "shutdown"
    blob_manager,       \* whether the processing service has a blob manager
    temp_files,         \* the tasks whose temporary PDF file exists
    cleanups            \* how often cleanup_temp_file was called on the file of task i

hierarchy_vars == <<no_summaries, OPENAI_API_KEY, json_data, enable_summaries, pc, nodes,
                    all_elements, structural_nodes, content_nodes, root, level_parents,
                    idx, pass_no, calls>>

task_vars == <<tasks, processing_queue, worker_task, task_data, worker_running,
               tasks_processed, max_workers, executor, blob_manager, temp_files, cleanups>>

vars == <<hierarchy_vars, task_vars>>

\* TaskStatus (lines 19-24)
PENDING == "pending"

PROCESSING == "processing"

COMPLETED == "completed"

FAILED == "failed"

NoTask == 0

\* BackgroundTaskManager.__init__ (lines 49-62); the service is constructed with or
\* without a blob manager and sets itself as the processing service
BackgroundTaskManagerInit(workers, blobs) ==
    /\ tasks = <<>>
    /\ processing_queue = <<>>
    /\ worker_task = "none"
    /\ task_data = NoTask
    /\ worker_running = FALSE
    /\ tasks_processed = 0
    /\ max_workers = workers
    /\ executor = "none"
    /\ blob_manager = blobs
    /\ temp_files = {}
    /\ cleanups = <<>>

\* mutant: only the command line switch is looked at
summaries_enabled_IgnoresKey(no_summaries_arg, api_key) ==
    IF no_summaries_arg THEN FALSE ELSE TRUE

\* main(), lines 569-581: the value passed as enable_summaries
summaries_enabled(no_summaries_arg, api_key) ==
    IF no_summaries_arg THEN FALSE
    ELSE IF ~api_key THEN FALSE
    ELSE TRUE

InitBuild ==
    /\ pc = "create"
    /\ nodes = <<>>
    /\ all_elements = <<>>
    /\ structural_nodes = <<>>
    /\ content_nodes = <<>>
    /\ root = NoNode
    /\ level_parents = <<>>
    /\ idx = 0
    /\ pass_no = 0
    /\ calls = <<>>

Init ==
    /\ \/ \E K \in KeySets : \E f \in [K -> InputLabels] : json_data = DocOf(K, f, FALSE)
       \/ \E K \in KeySets : \E f \in [K -> ListingLabels] :
              /\ Cardinality(K) > 1
              /\ json_data = Reverse(DocOf(K, f, FALSE))
       \/ json_data \in {EndToEndExample, FigureTableExample, CrossPageExample}
    /\ no_summaries = TRUE
    /\ OPENAI_API_KEY = FALSE
    /\ enable_summaries = summaries_enabled(no_summaries, OPENAI_API_KEY)
    /\ InitBuild
    /\ BackgroundTaskManagerInit(1, FALSE)

\* the documents that are summarized: one page, fewer labels
SumKeySets == {S \in SUBSET ({1} \X (0..MaxOrder)) : Cardinality(S) <= MaxSumElems}

SumLabels == {Title, Sec, SubSec, Para}

InitSum ==
    /\ \E K \in SumKeySets : \E f \in [K -> SumLabels] : json_data = DocOf(K, f, TRUE)
    /\ no_summaries \in BOOLEAN
    /\ OPENAI_API_KEY \in BOOLEAN
    /\ enable_summaries = summaries_enabled(no_summaries, OPENAI_API_KEY)
    /\ InitBuild
    /\ BackgroundTaskManagerInit(1, FALSE)

\* lines 342-355: create all nodes, sort, separate
CreateNodes ==
    /\ pc = "create"
    /\ LET created == [i \in 1..Len(json_data) |-> create_node_from_element(json_data[i])]
           heap == [id \in {created[i].id : i \in DOMAIN created} |->
                       LET i == CHOOSE i \in DOMAIN created : created[i].id = id
                       IN  created[i]]
           sorted == SortByKey([i \in 1..Len(created) |-> created[i].id], heap)
       IN  /\ nodes' = heap
           /\ all_elements' = sorted
           /\ structural_nodes' = Filter(sorted, heap, TRUE)
           /\ content_nodes' = Filter(sorted, heap, FALSE)
    /\ pc' = "merge_pairs"
    /\ UNCHANGED <<task_vars, no_summaries, OPENAI_API_KEY, json_data, enable_summaries, root, level_parents, idx, pass_no, calls>>

\* line 359
MergeFigureCaptionPairs ==
    /\ pc = "merge_pairs"
    /\ LET r == merge_figure_caption_pairs(content_nodes, nodes)
       IN  /\ content_nodes' = r.list
           /\ nodes' = r.heap
    /\ pc' = "merge_lists"
    /\ UNCHANGED <<task_vars, no_summaries, OPENAI_API_KEY, json_data, enable_summaries, all_elements, structural_nodes, root,
                   level_parents, idx, pass_no, calls>>

\* line 362
MergeConsecutiveLists ==
    /\ pc = "merge_lists"
    /\ LET r == merge_consecutive_lists(content_nodes, nodes)
       IN  /\ content_nodes' = r.list
           /\ nodes' = r.heap
    /\ pc' = "root"
    /\ UNCHANGED <<task_vars, no_summaries, OPENAI_API_KEY, json_data, enable_summaries, all_elements, structural_nodes, root,
                   level_parents, idx, pass_no, calls>>

\* lines 364-377, and line 399 of _build_unlimited_depth_hierarchy
CreateRoot ==
    /\ pc = "root"
    /\ LET doc_title == FirstTitle(structural_nodes, nodes)
       IN  IF doc_title # NoNode
           THEN /\ root' = doc_title
                /\ structural_nodes' = RemoveFirst(structural_nodes, doc_title)
                /\ nodes' = nodes
           ELSE /\ root' = DocumentRootId
                /\ structural_nodes' = structural_nodes
                /\ nodes' = [id \in DOMAIN nodes \cup {DocumentRootId} |->
                                IF id = DocumentRootId THEN SyntheticRoot ELSE nodes[id]]
    /\ level_parents' = (0 :> root')
    /\ idx' = 1
    /\ pc' = "build"
    /\ UNCHANGED <<task_vars, no_summaries, OPENAI_API_KEY, json_data, enable_summaries, all_elements, content_nodes, pass_no, calls>>

\* mutant: the search for the parent starts at the node's own level
ParentFor_SameLevel(level, lp, rt) ==
    LET parent_level == FindParentLevel(level, lp)
    IN  IF parent_level >= 0 THEN lp[parent_level] ELSE rt

\* the parent _build_unlimited_depth_hierarchy picks for a node of this level (lines 406-415)
ParentFor(level, lp, rt) ==
    LET parent_level == FindParentLevel(level - 1, lp)
    IN  IF parent_level >= 0 THEN lp[parent_level] ELSE rt

\* mutant: the level right below the node stays open
UpdateLevelParents_KeepsNext(lp, level, node) ==
    [k \in {k \in DOMAIN lp \cup {level} : k <= level + 1} |->
        IF k = level THEN node ELSE lp[k]]

\* mutant: the deeper levels stay open
UpdateLevelParents_NoClear(lp, level, node) ==
    [k \in DOMAIN lp \cup {level} |-> IF k = level THEN node ELSE lp[k]]

\* lines 419-425: record the node at its level and clear the deeper levels
UpdateLevelParents(lp, level, node) ==
    [k \in {k \in DOMAIN lp \cup {level} : k <= level} |->
        IF k = level THEN node ELSE lp[k]]

\* one iteration of the for loop of _build_unlimited_depth_hierarchy (lines 401-425)
BuildStep ==
    /\ pc = "build"
    /\ idx <= Len(structural_nodes)
    /\ LET node == structural_nodes[idx]
           level == nodes[node].level
       IN  IF level <= 0
           THEN UNCHANGED <<nodes, level_parents>>
           ELSE /\ nodes' = add_child(nodes, ParentFor(level, level_parents, root), node)
                /\ level_parents' = UpdateLevelParents(level_parents, level, node)
    /\ idx' = idx + 1
    /\ UNCHANGED <<task_vars, no_summaries, OPENAI_API_KEY, json_data, enable_summaries, pc, all_elements, structural_nodes,
                   content_nodes, root, pass_no, calls>>

\* the for loop is exhausted; _assign_content_as_leaf_nodes starts
BuildDone ==
    /\ pc = "build"
    /\ idx > Len(structural_nodes)
    /\ pc' = "assign"
    /\ idx' = 1
    /\ UNCHANGED <<task_vars, no_summaries, OPENAI_API_KEY, json_data, enable_summaries, nodes, all_elements, structural_nodes,
                   content_nodes, root, level_parents, pass_no, calls>>

\* mutant: the collected structural nodes are scanned in tree order, unsorted
AllStructural_Unsorted(rt, heap) == CollectStructural(rt, heap)

\* lines 430-432
AllStructural(rt, heap) == SortByKey(CollectStructural(rt, heap), heap)

\* lines 436-443
BestParent(rt, heap, content_node) ==
    ScanBestParent(AllStructural(rt, heap), 1, rt, heap[content_node], heap)

\* one iteration of the outer for loop of _assign_content_as_leaf_nodes (lines 434-445)
AssignStep ==
    /\ pc = "assign"
    /\ idx <= Len(content_nodes)
    /\ LET content_node == content_nodes[idx]
       IN  nodes' = add_content(nodes, BestParent(root, nodes, content_node), content_node)
    /\ idx' = idx + 1
    /\ UNCHANGED <<task_vars, no_summaries, OPENAI_API_KEY, json_data, enable_summaries, pc, all_elements, structural_nodes,
                   content_nodes, root, level_parents, pass_no, calls>>

\* lines 387-394 with summaries disabled: the else branch of line 391
AssignDone ==
    /\ pc = "assign"
    /\ idx > Len(content_nodes)
    /\ ~enable_summaries
    /\ pc' = "done"
    /\ UNCHANGED <<task_vars, no_summaries, OPENAI_API_KEY, json_data, enable_summaries, nodes, all_elements, structural_nodes,
                   content_nodes, root, level_parents, idx, pass_no, calls>>

\* lines 388-390: generate_summaries_recursive(root) is entered
StartSummaries ==
    /\ pc = "assign"
    /\ idx > Len(content_nodes)
    /\ enable_summaries
    /\ pc' = "summaries"
    /\ idx' = 1
    /\ pass_no' = 1
    /\ UNCHANGED <<task_vars, no_summaries, OPENAI_API_KEY, json_data, enable_summaries, nodes, all_elements, structural_nodes,
                   content_nodes, root, level_parents, calls>>

\* what the Summarizer may do in a call of this pass: raise, return no content,
\* or return a text (padded with blanks, and different from pass to pass)
PassChar == <<"p", "q", "r", "s">>

Outcomes(pass) ==
    {[raises |-> TRUE, content |-> None],
     [raises |-> FALSE, content |-> None],
     [raises |-> FALSE, content |-> <<" ", PassChar[pass], " ">>]}

WorkList == PostOrder(root, nodes)

\* mutant: the leaf summary is generated whether or not one is present
LeafDue_Always(n) == TRUE

\* line 249: the guard of the leaf assignment
LeafDue(n) == Falsy(n.summary)

\* line 253: the guard of the section assignment
SectionDue(n) == (is_structural(n) \/ n.label = Document) /\ Falsy(n.summary)

\* mutant: the text of the leaf is cut to the length the fallback shows
LeafSummary_CutsText ==
    /\ pc = "summaries"
    /\ idx <= Len(WorkList)
    /\ WorkList[idx].kind = "leaf"
    /\ LET content == WorkList[idx].node
       IN  /\ LeafDue(nodes[content])
           /\ \E outcome \in Outcomes(pass_no) :
                 /\ nodes' = [nodes EXCEPT ![content].summary =
                                  generate_leaf_summary(nodes[content], outcome),
                                           ![content].text = Take(@, LeafTruncLen)]
                 /\ calls' = Append(calls,
                                 [pass |-> pass_no, kind |-> "leaf", node |-> content,
                                  prior |-> nodes[content].summary, outcome |-> outcome,
                                  prompt |-> LeafPrompt(nodes[content])])
    /\ idx' = idx + 1
    /\ UNCHANGED <<task_vars, no_summaries, OPENAI_API_KEY, json_data, enable_summaries, pc,
                   all_elements, structural_nodes, content_nodes, root, level_parents,
                   pass_no>>

\* lines 248-250, one content element
LeafSummary ==
    /\ pc = "summaries"
    /\ idx <= Len(WorkList)
    /\ WorkList[idx].kind = "leaf"
    /\ LET content == WorkList[idx].node
       IN  /\ LeafDue(nodes[content])
           /\ \E outcome \in Outcomes(pass_no) :
                 /\ nodes' = [nodes EXCEPT ![content].summary =
                                  generate_leaf_summary(nodes[content], outcome)]
                 /\ calls' = Append(calls,
                                 [pass |-> pass_no, kind |-> "leaf", node |-> content,
                                  prior |-> nodes[content].summary, outcome |-> outcome,
                                  prompt |-> LeafPrompt(nodes[content])])
    /\ idx' = idx + 1
    /\ UNCHANGED <<task_vars, no_summaries, OPENAI_API_KEY, json_data, enable_summaries, pc, all_elements, structural_nodes,
                   content_nodes, root, level_parents, pass_no>>

\* lines 253-254, after the children and the content elements of the node
SectionSummary ==
    /\ pc = "summaries"
    /\ idx <= Len(WorkList)
    /\ WorkList[idx].kind = "section"
    /\ LET node == WorkList[idx].node
       IN  /\ SectionDue(nodes[node])
           /\ \E outcome \in Outcomes(pass_no) :
                 /\ nodes' = [nodes EXCEPT ![node].summary =
                                  generate_section_summary(nodes[node], outcome)]
                 /\ calls' = Append(calls,
                                 [pass |-> pass_no, kind |-> "section", node |-> node,
                                  prior |-> nodes[node].summary, outcome |-> outcome,
                                  prompt |-> SectionPrompt(nodes[node], nodes)])
    /\ idx' = idx + 1
    /\ UNCHANGED <<task_vars, no_summaries, OPENAI_API_KEY, json_data, enable_summaries, pc, all_elements, structural_nodes,
                   content_nodes, root, level_parents, pass_no>>

\* lines 249 and 253 when the guard is false: nothing is called, nothing assigned
SkipSummarized ==
    /\ pc = "summaries"
    /\ idx <= Len(WorkList)
    /\ LET n == nodes[WorkList[idx].node]
       IN  IF WorkList[idx].kind = "leaf" THEN ~LeafDue(n) ELSE ~SectionDue(n)
    /\ idx' = idx + 1
    /\ UNCHANGED <<task_vars, no_summaries, OPENAI_API_KEY, json_data, enable_summaries, pc, nodes, all_elements, structural_nodes,
                   content_nodes, root, level_parents, pass_no, calls>>

\* generate_summaries_recursive(root) returns
PassDone ==
    /\ pc = "summaries"
    /\ idx > Len(WorkList)
    /\ pc' = "done"
    /\ UNCHANGED <<task_vars, no_summaries, OPENAI_API_KEY, json_data, enable_summaries, nodes, all_elements, structural_nodes,
                   content_nodes, root, level_parents, idx, pass_no, calls>>

\* a caller runs generate_summaries_recursive(root) again on the finished tree
Rerun ==
    /\ pc = "done"
    /\ enable_summaries
    /\ pass_no < MaxPasses
    /\ pc' = "summaries"
    /\ idx' = 1
    /\ pass_no' = pass_no + 1
    /\ UNCHANGED <<task_vars, no_summaries, OPENAI_API_KEY, json_data, enable_summaries, nodes, all_elements, structural_nodes,
                   content_nodes, root, level_parents, calls>>

Build ==
    \/ CreateNodes
    \/ MergeFigureCaptionPairs
    \/ MergeConsecutiveLists
    \/ CreateRoot
    \/ BuildStep
    \/ BuildDone
    \/ AssignStep

Next ==
    \/ Build
    \/ AssignDone

Spec == Init /\ [][Next]_vars

NextSum ==
    \/ Build
    \/ AssignDone
    \/ StartSummaries
    \/ LeafSummary
    \/ SectionSummary
    \/ SkipSummarized
    \/ PassDone
    \/ Rerun

SpecSum == InitSum /\ [][NextSum]_vars

\* ------------------------------------------------------------------ task manager
MaxTasks == 3

MaxWorkers == 2

\* FileManager.cleanup_temp_file of the file of a task (file_manager.py, lines 154-171):
\* the file is unlinked if it exists; nothing is raised
cleanup_temp_file(counts, task) == [counts EXCEPT ![task] = @ + 1]

\* the hierarchy builder is not running
HierarchyIdle ==
    /\ json_data = <<>>
    /\ no_summaries = TRUE
    /\ OPENAI_API_KEY = FALSE
    /\ enable_summaries = FALSE
    /\ InitBuild

InitTasks ==
    /\ HierarchyIdle
    /\ \E workers \in 1..MaxWorkers : \E blobs \in BOOLEAN :
           BackgroundTaskManagerInit(workers, blobs)

\* start_worker (lines 72-83)
start_worker ==
    /\ executor' = "running"
    /\ IF worker_task \in {"none", "done"}
       THEN /\ worker_task' = "get"
            /\ worker_running' = TRUE
       ELSE UNCHANGED <<worker_task, worker_running>>
    /\ UNCHANGED <<hierarchy_vars, tasks, processing_queue, task_data, tasks_processed,
                   max_workers, blob_manager, temp_files, cleanups>>

\* mutant: the cancelled worker leaves the file of its task
stop_worker_KeepsFile ==
    /\ worker_running' = FALSE
    /\ IF worker_task \in {"get", "run", "upload"}
       THEN /\ worker_task' = "done"
            /\ task_data' = NoTask
            /\ UNCHANGED <<cleanups, temp_files>>
       ELSE UNCHANGED <<worker_task, task_data, cleanups, temp_files>>
    /\ executor' = IF executor # "none" THEN "shutdown" ELSE executor
    /\ UNCHANGED <<hierarchy_vars, tasks, processing_queue, tasks_processed, max_workers,
                   blob_manager>>

\* stop_worker (lines 85-100): the _worker is cancelled at its await; CancelledError
\* is no Exception, so of lines 239-253 only the finally clause runs, then lines
\* 258-261
stop_worker ==
    /\ worker_running' = FALSE
    /\ IF worker_task \in {"get", "run", "upload"}
       THEN /\ worker_task' = "done"
            /\ task_data' = NoTask
            /\ IF task_data # NoTask
               THEN /\ cleanups' = cleanup_temp_file(cleanups, task_data)
                    /\ temp_files' = temp_files \ {task_data}
               ELSE UNCHANGED <<cleanups, temp_files>>
       ELSE UNCHANGED <<worker_task, task_data, cleanups, temp_files>>
    /\ executor' = IF executor # "none" THEN "shutdown" ELSE executor
    /\ UNCHANGED <<hierarchy_vars, tasks, processing_queue, tasks_processed, max_workers,
                   blob_manager>>

\* the asynchronous path of process_pdf_from_blob and process_pdf_upload
\* (pdf_processing_service.py, lines 77-101 and 164-207) with submit_task
\* (lines 102-145): the PDF is put into a temporary file, a new uuid4 is the task id,
\* the task is recorded as PENDING and put into the queue
submit_task ==
    /\ Len(tasks) < MaxTasks
    /\ \E source \in {"blob", "upload"} :
          /\ source = "blob" => blob_manager
          /\ tasks' = Append(tasks, [status |-> PENDING, result |-> None, error |-> None,
                                     source |-> source])
    /\ processing_queue' = Append(processing_queue, Len(tasks) + 1)
    /\ temp_files' = temp_files \cup {Len(tasks) + 1}
    /\ cleanups' = Append(cleanups, 0)
    /\ UNCHANGED <<hierarchy_vars, worker_task, task_data, worker_running, tasks_processed,
                   max_workers, executor, blob_manager>>

\* _worker, lines 194-216: the next task_data is taken and handed to the executor
WorkerGet ==
    /\ worker_task = "get"
    /\ processing_queue # <<>>
    /\ task_data' = Head(processing_queue)
    /\ processing_queue' = Tail(processing_queue)
    /\ tasks' = [tasks EXCEPT ![Head(processing_queue)].status = PROCESSING]
    /\ worker_task' = "run"
    /\ UNCHANGED <<hierarchy_vars, worker_running, tasks_processed, max_workers, executor,
                   blob_manager, temp_files, cleanups>>

\* _worker, lines 226-236 and 248-256: success; of the result only output_url is kept
Completed(output_url) ==
    /\ tasks' = [tasks EXCEPT ![task_data].status = COMPLETED,
                              ![task_data].result = <<"output_url", output_url>>]
    /\ tasks_processed' = tasks_processed + 1
    /\ cleanups' = cleanup_temp_file(cleanups, task_data)
    /\ temp_files' = temp_files \ {task_data}
    /\ task_data' = NoTask
    /\ worker_task' = "get"

\* mutant: a failure ends the worker
Failed_EndsWorker ==
    /\ tasks' = [tasks EXCEPT ![task_data].status = FAILED,
                              ![task_data].error = <<"error">>]
    /\ tasks_processed' = tasks_processed + 1
    /\ cleanups' = cleanup_temp_file(cleanups, task_data)
    /\ temp_files' = temp_files \ {task_data}
    /\ task_data' = NoTask
    /\ worker_task' = "done"

\* mutant: a failed task is not counted
Failed_NotCounted ==
    /\ tasks' = [tasks EXCEPT ![task_data].status = FAILED,
                              ![task_data].error = <<"error">>]
    /\ tasks_processed' = tasks_processed
    /\ cleanups' = cleanup_temp_file(cleanups, task_data)
    /\ temp_files' = temp_files \ {task_data}
    /\ task_data' = NoTask
    /\ worker_task' = "get"

\* mutant: a failed task also gets a result
Failed_WithResult ==
    /\ tasks' = [tasks EXCEPT ![task_data].status = FAILED,
                              ![task_data].error = <<"error">>,
                              ![task_data].result = <<"output_url", "None">>]
    /\ tasks_processed' = tasks_processed + 1
    /\ cleanups' = cleanup_temp_file(cleanups, task_data)
    /\ temp_files' = temp_files \ {task_data}
    /\ task_data' = NoTask
    /\ worker_task' = "get"

\* _worker, lines 239-256: an Exception of the processing or of the upload
Failed ==
    /\ tasks' = [tasks EXCEPT ![task_data].status = FAILED,
                              ![task_data].error = <<"error">>]
    /\ tasks_processed' = tasks_processed + 1
    /\ cleanups' = cleanup_temp_file(cleanups, task_data)
    /\ temp_files' = temp_files \ {task_data}
    /\ task_data' = NoTask
    /\ worker_task' = "get"

\* _worker, lines 208-220: run_in_executor(_process_pdf_sync, ...) returns or raises
WorkerProcessed ==
    /\ worker_task = "run"
    /\ \E raises \in BOOLEAN :
          IF raises THEN Failed
          ELSE IF blob_manager
          THEN /\ worker_task' = "upload"
               /\ UNCHANGED <<tasks, tasks_processed, cleanups, temp_files, task_data>>
          ELSE Completed("None")
    /\ UNCHANGED <<hierarchy_vars, processing_queue, worker_running, max_workers, executor,
                   blob_manager>>

\* _worker, lines 220-224: upload_json_to_blob returns or raises
WorkerUploaded ==
    /\ worker_task = "upload"
    /\ \E raises \in BOOLEAN :
          IF raises THEN Failed ELSE Completed("url")
    /\ UNCHANGED <<hierarchy_vars, processing_queue, worker_running, max_workers, executor,
                   blob_manager>>

\* get_worker_status (lines 166-185)
StatusCount(status) == Cardinality({t \in DOMAIN tasks : tasks[t].status = status})

get_worker_status ==
    [worker_running |-> worker_running,
     worker_alive |-> worker_task \notin {"none", "done"},
     max_workers |-> max_workers,
     executor_running |-> executor = "running",
     queue_size |-> Len(processing_queue),
     total_tasks |-> Len(tasks),
     tasks_processed |-> tasks_processed,
     pending_tasks |-> StatusCount(PENDING),
     processing_tasks |-> StatusCount(PROCESSING),
     completed_tasks |-> StatusCount(COMPLETED),
     failed_tasks |-> StatusCount(FAILED)]

Worker ==
    \/ WorkerGet
    \/ WorkerProcessed
    \/ WorkerUploaded

NextTasks ==
    \/ start_worker
    \/ stop_worker
    \/ submit_task
    \/ Worker

SpecTasks == InitTasks /\ [][NextTasks]_vars

\* stop_worker is not called, the worker is started and scheduled, and every
\* processing call and every upload returns or raises
NextTasksLive ==
    \/ start_worker
    \/ submit_task
    \/ Worker

SpecTasksLive ==
    /\ InitTasks
    /\ [][NextTasksLive]_vars
    /\ WF_vars(start_worker /\ worker_task = "none")
    /\ WF_vars(WorkerGet)
    /\ WF_vars(WorkerProcessed)
    /\ WF_vars(WorkerUploaded)

\* ------------------------------------------------------------------ properties
Key(id) == <<nodes[id].page, nodes[id].reading_order>>

\* the ids reachable from the root through children
RECURSIVE Descendants(_, _)
Descendants(id, heap) ==
    {id} \cup UNION {Descendants(heap[id].children[i], heap) :
                        i \in DOMAIN heap[id].children}

TreeNodes == IF root = NoNode THEN {} ELSE Descendants(root, nodes)

\* the places <<owner, position>> where a node is listed as a content element
ContentPlaces(c) ==
    {op \in UNION {{<<o, i>> : i \in DOMAIN nodes[o].content_elements} : o \in DOMAIN nodes} :
        nodes[op[1]].content_elements[op[2]] = c}

\* the places <<parent, position>> where a node is listed as a child
ChildPlaces(c) ==
    {op \in UNION {{<<o, i>> : i \in DOMAIN nodes[o].children} : o \in DOMAIN nodes} :
        nodes[op[1]].children[op[2]] = c}

\* how many of content_nodes _assign_content_as_leaf_nodes has attached so far
AssignedCount ==
    IF pc = "assign" THEN idx - 1
    ELSE IF pc \in {"summaries", "done"} THEN Len(content_nodes)
    ELSE 0

Assigned == {content_nodes[i] : i \in 1..AssignedCount}

\* the structural nodes of the tree that precede a content node in document order
StructuralBefore(c) ==
    {s \in TreeNodes : (is_structural(nodes[s]) \/ nodes[s].label = Document)
                       /\ KeyLess(Key(s), Key(c))}

BuildFinished == pc \in {"assign", "summaries", "done"}

\* C1: every content node that survived the merges is listed exactly once, in the
\* content_elements of exactly one node; that owner is a structural node of the tree
\* or the root, and is the root when no structural node precedes the content node.
C1_ContentAttachedOnce ==
    /\ \A c \in Assigned :
          /\ Cardinality(ContentPlaces(c)) = 1
          /\ \A op \in ContentPlaces(c) :
                /\ op[1] \in TreeNodes
                /\ is_structural(nodes[op[1]]) \/ op[1] = root
                /\ nodes[c].parent = op[1]
                /\ StructuralBefore(c) = {} => op[1] = root
    /\ \A c \in Range(content_nodes) \ Assigned : ContentPlaces(c) = {}

C1_Witness ==
    /\ pc = "done"
    /\ \E c1, c2 \in Range(content_nodes) :
          /\ nodes[c1].parent = root
          /\ nodes[c2].parent # root

\* C2: every node made from a structural input element, other than the root, is
\* listed exactly once in exactly one children list, and the children relation is
\* acyclic.
C2_EveryStructuralHasOneParent ==
    BuildFinished =>
        /\ \A n \in DOMAIN nodes :
              is_structural(nodes[n]) /\ n # root => Cardinality(ChildPlaces(n)) = 1
        /\ \A n \in DOMAIN nodes :
              \A i \in DOMAIN nodes[n].children :
                  n \notin Descendants(nodes[n].children[i], nodes)

\* C3: every child has a greater level than its parent.
C3_LevelsIncrease ==
    \A n \in DOMAIN nodes :
        \A i \in DOMAIN nodes[n].children :
            nodes[nodes[n].children[i]].level > nodes[n].level

C3_Witness ==
    /\ BuildFinished
    /\ \E a, b \in DOMAIN nodes :
          /\ nodes[a].parent = root
          /\ nodes[b].parent = a
          /\ nodes[b].level > nodes[a].level + 1

InputKeys == {<<json_data[i].page, json_data[i].reading_order>> : i \in DOMAIN json_data}

InputElem(key) ==
    json_data[CHOOSE i \in DOMAIN json_data :
                  <<json_data[i].page, json_data[i].reading_order>> = key]

\* the keys of the input elements with a content label, in document order
InputContent == KeysAscending({k \in InputKeys : InputElem(k).label \in ContentLabels})

PairsMerged == pc \notin {"create", "merge_pairs"}

ListsMerged == pc \notin {"create", "merge_pairs", "merge_lists"}

Occurrences(seq, x) == Cardinality({i \in DOMAIN seq : seq[i] = x})

\* C5: a fig (tab) merged with the cap after it is one node with the two snapshots
\* fig/tab then cap, label figure (table) and text "<cap> [IMAGE: <fig>]"
\* ("<cap> [TABLE: <tab>]"); the cap is no node of its own any more.
C5_PairMerge ==
    PairsMerged =>
        \A i \in DOMAIN InputContent :
            LET k == InputContent[i]
                e == InputElem(k)
            IN  e.label \in {Fig, Tab} /\ nodes[k].merged_elements # <<>> =>
                    /\ i < Len(InputContent)
                    /\ LET c == InputElem(InputContent[i + 1])
                       IN  /\ c.label = Cap
                           /\ nodes[k].merged_elements = <<e, c>>
                           /\ nodes[k].label = IF e.label = Fig THEN Figure ELSE Table
                           /\ nodes[k].text =
                                  c.text \o <<IF e.label = Fig THEN " [IMAGE: " ELSE " [TABLE: ">>
                                      \o e.text \o <<"]">>
                           /\ Occurrences(content_nodes, k) = 1
                           /\ Occurrences(content_nodes, InputContent[i + 1]) = 0

C5_Witness ==
    /\ pc = "done"
    /\ \E a, b \in Range(content_nodes) :
          /\ nodes[a].label = Figure
          /\ nodes[b].label = Table
          /\ Len(nodes[a].merged_elements) = 2
          /\ Len(nodes[b].merged_elements) = 2

\* a maximal run of list elements in the input content: positions i..j of
\* InputContent, all labelled list, on one page, with contiguous reading orders
Chained(i, j) ==
    \A m \in i..j :
        /\ InputElem(InputContent[m]).label = List
        /\ InputContent[m][1] = InputContent[i][1]
        /\ m > i => InputContent[m][2] = InputContent[m - 1][2] + 1

MaximalRun(i, j) ==
    /\ i \in DOMAIN InputContent
    /\ j \in DOMAIN InputContent
    /\ i <= j
    /\ Chained(i, j)
    /\ i > 1 => ~Chained(i - 1, j)
    /\ j < Len(InputContent) => ~Chained(i, j + 1)

RunSnapshots(i, j) == [m \in 1..(j - i + 1) |-> InputElem(InputContent[i + m - 1])]

RunReduced(i, j) ==
    /\ Occurrences(content_nodes, InputContent[i]) = 1
    /\ \A m \in (i + 1)..j : Occurrences(content_nodes, InputContent[m]) = 0
    /\ nodes[InputContent[i]].label = ListGroup
    /\ nodes[InputContent[i]].merged_elements = RunSnapshots(i, j)

\* C6 as claimed: every maximal run of k >= 1 list elements becomes one list_group
\* node whose merged_elements are the k run members in order.
C6_EveryRunIsGroup ==
    ListsMerged =>
        \A i, j \in DOMAIN InputContent : MaximalRun(i, j) => RunReduced(i, j)

\* C6 amended: every maximal run of k >= 2 list elements becomes one list_group node
\* whose merged_elements are the k run members in order; a run of one element stays
\* a list node with no merged_elements.
C6_RunOfTwoOrMoreIsGroup ==
    ListsMerged =>
        \A i, j \in DOMAIN InputContent :
            MaximalRun(i, j) =>
                IF i < j THEN RunReduced(i, j)
                ELSE /\ Occurrences(content_nodes, InputContent[i]) = 1
                     /\ nodes[InputContent[i]].label = List
                     /\ nodes[InputContent[i]].merged_elements = <<>>

C6_Witness ==
    /\ pc = "done"
    /\ \E i \in DOMAIN InputContent :
          /\ MaximalRun(i, i + 2)
          /\ Len(nodes[InputContent[i]].merged_elements) = 3

RECURSIVE JoinLines(_)
JoinLines(texts) ==
    IF Len(texts) = 1 THEN texts[1]
    ELSE JoinLines(SubSeq(texts, 1, Len(texts) - 1)) \o <<"\n">> \o texts[Len(texts)]

\* C7: the text of the list_group made from a run of k >= 2 list elements is the
\* texts of the run members joined by newlines, in run order.
C7_GroupTextJoinsAll ==
    ListsMerged =>
        \A i, j \in DOMAIN InputContent :
            MaximalRun(i, j) /\ i < j =>
                nodes[InputContent[i]].text =
                    JoinLines([m \in 1..(j - i + 1) |-> InputElem(InputContent[i + m - 1]).text])

\* ------------------------------------------------------------------ summaries
\* the nodes the summarization pass visits: the tree and its content elements
Visited == {WorkList[i].node : i \in DOMAIN WorkList}

CallsFor(id, pass) == {i \in DOMAIN calls : calls[i].node = id /\ calls[i].pass = pass}

LastCallFor(id) ==
    LET is == {i \in DOMAIN calls : calls[i].node = id}
    IN  CHOOSE i \in is : \A j \in is : j <= i

Summarized == {id \in DOMAIN nodes : ~Falsy(nodes[id].summary)}

\* C8: a node whose summary is non-empty keeps it through every later step, and no
\* Summarizer call is made for it, whatever the Summarizer would do; a fallback
\* summary counts as non-empty.
C8_SummaryKept ==
    [][\A id \in Summarized :
          /\ nodes'[id].summary = nodes[id].summary
          /\ calls' # calls => calls'[Len(calls')].node # id]_vars

C8_Witness ==
    /\ pc = "done"
    /\ pass_no = 2
    /\ \E a, b, c \in Visited :
          /\ nodes[a].summary = LeafFallback(nodes[a])
          /\ nodes[b].summary = <<PassChar[1]>>
          /\ nodes[c].summary = <<PassChar[2]>>
          /\ CallsFor(a, 2) = {}
          /\ CallsFor(b, 2) = {}
          /\ CallsFor(c, 1) # {}

\* C9: the first pass always runs on to its end, and when it has ended every visited
\* node was called for exactly once and holds the fallback if that call raised and
\* the returned text (blanks stripped, empty when no content came back) if it did not.
C9_PassCompletes ==
    /\ pc = "summaries" => idx <= Len(WorkList) + 1 /\ ENABLED NextSum
    /\ pc = "done" /\ pass_no = 1 =>
          \A id \in Visited :
              /\ Cardinality(CallsFor(id, 1)) = 1
              /\ \A i \in CallsFor(id, 1) :
                    LET o == calls[i].outcome
                        n == nodes[id]
                    IN  IF o.raises
                        THEN /\ n.summary # None
                             /\ Len(n.summary) > Len(n.label)
                             /\ n.summary[1] \in {"Summary unavailable for ",
                                                  "Summary unavailable for section "}
                             /\ SubSeq(n.summary, 2, Len(n.label) + 1) = n.label
                        ELSE IF o.content = None THEN n.summary = <<>>
                        ELSE n.summary = <<PassChar[1]>>

C9_Witness ==
    /\ pc = "done"
    /\ pass_no = 1
    /\ \E a, b, c, d \in Visited :
          /\ calls[LastCallFor(a)].kind = "leaf" /\ calls[LastCallFor(a)].outcome.raises
          /\ calls[LastCallFor(b)].kind = "section" /\ calls[LastCallFor(b)].outcome.raises
          /\ calls[LastCallFor(c)].kind = "section" /\ nodes[c].summary = <<PassChar[1]>>
          /\ calls[LastCallFor(d)].kind = "leaf" /\ nodes[d].summary = <<PassChar[1]>>

\* C10: whenever a Summarizer call fails, for a leaf or for a section, the summary
\* set is "Summary unavailable for <label>: <text cut to 100 characters>...".
C10_OneFallbackForm ==
    \A i \in DOMAIN calls :
        calls[i].outcome.raises /\ i = LastCallFor(calls[i].node) =>
            LET n == nodes[calls[i].node]
            IN  n.summary = <<"Summary unavailable for ">> \o n.label \o <<": ">>
                                \o Take(n.text, LeafTruncLen) \o <<"...">>

\* ------------------------------------------------------------------ gap nesting
\* the node the running iteration of the build loop is about
BuildNode == structural_nodes[idx]

\* the greatest open level below a level; level 0 (the root) is always open
GreatestOpenBelow(level) ==
    CHOOSE g \in DOMAIN level_parents :
        /\ g < level
        /\ \A k \in DOMAIN level_parents : k < level => k <= g

\* C11: a node of level L > 0 that arrives in the build loop, whether or not level
\* L - 1 is open, is appended to the children of the open node of the greatest level
\* below L (the root when only level 0 is open), and that node becomes its parent;
\* it is not dropped and the loop goes on.
C11_GapAttach ==
    [][pc = "build" /\ idx <= Len(structural_nodes) /\ nodes[BuildNode].level > 0 =>
          LET target == level_parents[GreatestOpenBelow(nodes[BuildNode].level)]
          IN  /\ nodes'[BuildNode].parent = target
              /\ nodes'[target].children = Append(nodes[target].children, BuildNode)
              /\ idx' = idx + 1]_vars

\* the stream [title, sub_sec]: the sub_sec is the one child of the title root
C11_Witness ==
    /\ pc = "done"
    /\ nodes[root].label = Title
    /\ \E b \in DOMAIN nodes :
          /\ nodes[b].label = SubSec
          /\ nodes[b].level = 2
          /\ nodes[b].parent = root
          /\ nodes[root].children = <<b>>
          /\ 1 \notin DOMAIN level_parents

\* ------------------------------------------------------------------ end to end
\* the emitted document: document_root.to_dict()
Emitted == to_dict(root, nodes)

\* C12: for the input [title 'Doc', sec '1 Intro', para 'hello', fig 'img1',
\* cap 'Figure 1: x'] on page 1 with summaries disabled, the emitted root is the
\* title and has no content; its one child is the section, with section_number '1';
\* the section's content_elements are the para 'hello' and then one merged node of
\* label 'figure', text 'Figure 1: x [IMAGE: img1]', is_merged true and two
\* merged_elements.
C12_EndToEnd ==
    json_data = EndToEndExample /\ pc = "done" =>
        /\ Emitted.label = Title
        /\ Emitted.text = <<"D", "o", "c">>
        /\ Emitted.content_elements = <<>>
        /\ Len(Emitted.children) = 1
        /\ LET section == Emitted.children[1]
           IN  /\ section.label = Sec
               /\ section.section_number = <<"1">>
               /\ section.children = <<>>
               /\ Len(section.content_elements) = 2
               /\ LET para == section.content_elements[1]
                      merged == section.content_elements[2]
                  IN  /\ para.label = Para
                      /\ para.text = <<"h", "e", "l", "l", "o">>
                      /\ "is_merged" \notin DOMAIN para
                      /\ merged.label = Figure
                      /\ merged.text = <<"F", "i", "g", "u", "r", "e", " ", "1", ":", " ", "x",
                                         " [IMAGE: ", "i", "m", "g", "1", "]">>
                      /\ "is_merged" \in DOMAIN merged
                      /\ merged.is_merged = TRUE
                      /\ Len(merged.merged_elements) = 2

C12_Witness ==
    /\ json_data = EndToEndExample
    /\ pc = "done"
    /\ ~enable_summaries
    /\ Len(Emitted.children[1].content_elements) = 2

\* ------------------------------------------------------------------ unrecognized labels
\* the nodes listed in the content_elements of a node of the tree
AttachedContent ==
    UNION {Range(nodes[o].content_elements) : o \in TreeNodes}

\* the snapshots kept in the merged_elements of the nodes of the tree
SnapshotsInTree ==
    UNION {Range(nodes[n].merged_elements) : n \in TreeNodes \cup AttachedContent}

SnapshotKeys == {<<m.page, m.reading_order>> : m \in SnapshotsInTree}

\* the input elements that are neither structural nor content
Unrecognized == {k \in InputKeys : ~is_structural(InputElem(k)) /\ ~is_content(InputElem(k))}

\* C13: an input element whose label is neither structural nor content is nowhere in
\* the finished tree, neither as a node nor as a snapshot in merged_elements, and the
\* two loops of the build (the steps before them are unconditional) always have a
\* next step until the build is done; every input element with a content label is
\* in the tree, as a content node or as a snapshot in the merged_elements of one.
C13_UnrecognizedDropped ==
    /\ pc \in {"build", "assign"} /\ Unrecognized # {} => ENABLED Next
    /\ pc = "done" =>
          \A k \in InputKeys :
              LET e == InputElem(k)
              IN  /\ ~is_structural(e) /\ ~is_content(e) =>
                        /\ k \notin TreeNodes \cup AttachedContent
                        /\ k \notin SnapshotKeys
                  /\ is_content(e) =>
                        \/ k \in AttachedContent
                        \/ e \in UNION {Range(nodes[c].merged_elements) : c \in AttachedContent}

\* a header next to a caption that was absorbed by its figure
C13_Witness ==
    /\ pc = "done"
    /\ \E h, f, c \in InputKeys :
          /\ InputElem(h).label = Header
          /\ InputElem(f).label = Fig
          /\ InputElem(c).label = Cap
          /\ f \in AttachedContent
          /\ c \notin AttachedContent
          /\ InputElem(c) \in Range(nodes[f].merged_elements)
          /\ h \notin AttachedContent

\* ------------------------------------------------------------------ summaries disabled
\* C14: when summaries are disabled (as main() selects with --no-summaries and also
\* when OPENAI_API_KEY is not set) the Summarizer is never called and the summary of
\* every node stays null.
C14_DisabledNoSummaries ==
    no_summaries \/ ~OPENAI_API_KEY \/ ~enable_summaries =>
        /\ calls = <<>>
        /\ pass_no = 0
        /\ pc # "summaries"
        /\ \A id \in DOMAIN nodes : nodes[id].summary = None

\* a finished tree of several nodes built without the key and without the switch
C14_Witness ==
    /\ pc = "done"
    /\ ~no_summaries
    /\ ~OPENAI_API_KEY
    /\ ~enable_summaries
    /\ nodes[root].children # <<>>
    /\ \E n \in TreeNodes : nodes[n].content_elements # <<>>
    /\ \A id \in TreeNodes \cup AttachedContent : to_dict(id, nodes).summary = None

\* ------------------------------------------------------------------ ordering
\* a list of nodes is strictly ascending by (page, reading_order)
StrictlyAscending(ids) ==
    \A i \in 1..(Len(ids) - 1) : KeyLess(Key(ids[i]), Key(ids[i + 1]))

\* the input lists its elements out of document order
ListedOutOfOrder ==
    \E i \in 1..(Len(json_data) - 1) :
        KeyLess(<<json_data[i + 1].page, json_data[i + 1].reading_order>>,
                <<json_data[i].page, json_data[i].reading_order>>)

\* C15: for inputs with unique (page, reading_order) keys, whatever the order the
\* input lists them in, every children list and every content_elements list is
\* strictly ascending by (page, reading_order).
C15_ListsAscending ==
    \A n \in DOMAIN nodes :
        /\ StrictlyAscending(nodes[n].children)
        /\ StrictlyAscending(nodes[n].content_elements)

\* an input listed out of document order whose tree has a node with two children
C15_Witness ==
    /\ pc = "done"
    /\ ListedOutOfOrder
    /\ \E n \in TreeNodes : Len(nodes[n].children) >= 2

\* ------------------------------------------------------------------ merge snapshots
\* the position of an input content element in document order
ContentIndex(k) == CHOOSE i \in DOMAIN InputContent : InputContent[i] = k

\* C16: a node is emitted with is_merged = true exactly when its merged_elements is
\* not empty; a non-empty merged_elements starts with the snapshot of the surviving
\* node as it was before any merge (its input element) and goes on with the input
\* elements it absorbed, one each and in the order of absorption, none of which is a
\* node of its own any more.
C16_MergedElements ==
    \A id \in DOMAIN nodes :
        LET d == to_dict(id, nodes)
            m == nodes[id].merged_elements
        IN  /\ m # <<>> <=> ("is_merged" \in DOMAIN d /\ d.is_merged = TRUE)
            /\ m = <<>> => "merged_elements" \notin DOMAIN d
            /\ m # <<>> =>
                  /\ d.merged_elements = m
                  /\ Len(m) >= 2
                  /\ m[1] = InputElem(id)
                  /\ ContentIndex(id) + Len(m) - 1 <= Len(InputContent)
                  /\ \A j \in 2..Len(m) :
                        LET k == InputContent[ContentIndex(id) + j - 1]
                        IN  /\ m[j] = InputElem(k)
                            /\ k \notin Range(content_nodes)

\* a run of two lists emitted with is_merged next to a para emitted without it
C16_Witness ==
    /\ pc = "done"
    /\ \E a \in AttachedContent :
          /\ nodes[a].label = ListGroup
          /\ Len(to_dict(a, nodes).merged_elements) = 2
          /\ to_dict(a, nodes).is_merged
    /\ \E c \in AttachedContent :
          /\ nodes[c].label = Para
          /\ DOMAIN to_dict(c, nodes) = DOMAIN to_dict(root, nodes)

\* ------------------------------------------------------------------ leaves
\* C17: every node listed in a content_elements list has level -1 and neither
\* children nor content elements of its own; only structural nodes and the root have
\* a non-empty children or content_elements list.
C17_ContentNodesAreLeaves ==
    /\ \A o \in DOMAIN nodes :
          \A i \in DOMAIN nodes[o].content_elements :
              LET c == nodes[nodes[o].content_elements[i]]
              IN  /\ c.level = -1
                  /\ c.children = <<>>
                  /\ c.content_elements = <<>>
    /\ \A n \in DOMAIN nodes :
          nodes[n].children # <<>> \/ nodes[n].content_elements # <<>> =>
              is_structural(nodes[n]) \/ n = root

\* a plain content node and a merged one, under a section below the root
C17_Witness ==
    /\ pc = "done"
    /\ \E s \in TreeNodes \ {root} :
          /\ Len(nodes[s].content_elements) = 2
          /\ nodes[nodes[s].content_elements[1]].merged_elements = <<>>
          /\ nodes[nodes[s].content_elements[2]].merged_elements # <<>>

\* ------------------------------------------------------------------ root
InputTitles == {k \in InputKeys : InputElem(k).label = Title}

RootChosen == pc \notin {"create", "merge_pairs", "merge_lists", "root"}

\* C18: when the input has a title, the root is the node of the first title in
\* document order; otherwise it is a synthetic node of label 'document' and level -1
\* that stands for no input element. The root never gets a parent: its parent field
\* stays unset and it is in no children and no content_elements list.
C18_Root ==
    RootChosen =>
        /\ InputTitles # {} =>
              /\ root \in InputTitles
              /\ nodes[root].label = Title
              /\ \A t \in InputTitles : t = root \/ KeyLess(root, t)
        /\ InputTitles = {} =>
              /\ root = DocumentRootId
              /\ root \notin InputKeys
              /\ nodes[root].label = Document
              /\ nodes[root].level = -1
        /\ nodes[root].parent = NoNode
        /\ ChildPlaces(root) = {}
        /\ ContentPlaces(root) = {}

\* two titles, listed out of document order, and the root has a child
C18_Witness ==
    /\ pc = "done"
    /\ Cardinality(InputTitles) = 2
    /\ ListedOutOfOrder
    /\ nodes[root].children # <<>>

\* ------------------------------------------------------------------ bottom-up order
\* the call a step has just added to the log
NewCall == calls'[Len(calls')]

SectionCalls(id) == {i \in DOMAIN calls : calls[i].node = id /\ calls[i].kind = "section"}

LeafCalls(id) == {i \in DOMAIN calls : calls[i].node = id /\ calls[i].kind = "leaf"}

\* the calls that had to come before the section call for N have been made
CalledBefore(N) ==
    /\ \A D \in Descendants(N, nodes) \ {N} :
          /\ SectionCalls(D) # {}
          /\ Falsy(nodes[D].summary) => SectionCalls(D) \cap CallsFor(D, pass_no) # {}
    /\ \A c \in Range(nodes[N].content_elements) :
          /\ LeafCalls(c) # {}
          /\ Falsy(nodes[c].summary) => LeafCalls(c) \cap CallsFor(c, pass_no) # {}

\* the children and the content elements of a node
Parts(N) == Range(nodes[N].children) \cup Range(nodes[N].content_elements)

\* C19 as stated: when the section call for a node N is made, the section call of
\* every node of the subtrees of N's children and the leaf call of every content
\* element of N lacking a summary have been made, so that every child and every
\* content element of N has a summary (does not lack one) when N's is composed.
C19_PartsHaveSummary ==
    [][Len(calls') = Len(calls) + 1 /\ NewCall.kind = "section" =>
          /\ CalledBefore(NewCall.node)
          /\ \A x \in Parts(NewCall.node) : ~Falsy(nodes[x].summary)]_vars

\* C19 amended: the calls are ordered as stated, so that when N's summary is composed
\* the summary of every child and of every content element of N has been assigned;
\* it is empty only where the Summarizer returned no text for that node, and then
\* N's prompt has the truncated text of the content element in its place and leaves
\* the child out; the summaries that are not empty are in the prompt.
C19_BottomUp ==
    [][Len(calls') = Len(calls) + 1 /\ NewCall.kind = "section" =>
          LET N == NewCall.node
          IN  /\ CalledBefore(N)
              /\ \A x \in Parts(N) :
                    /\ nodes[x].summary # None
                    /\ Falsy(nodes[x].summary) =>
                          LET o == calls[LastCallFor(x)].outcome
                          IN  ~o.raises /\ ResponseText(o.content) = <<>>
              /\ Len(NewCall.prompt.content) = Len(nodes[N].content_elements)
              /\ \A i \in DOMAIN nodes[N].content_elements :
                    LET c == nodes[nodes[N].content_elements[i]]
                    IN  NewCall.prompt.content[i] =
                            IF ~Falsy(c.summary)
                            THEN <<"- ">> \o c.label \o <<": ">> \o c.summary
                            ELSE <<"- ">> \o c.label \o <<": ">>
                                     \o Take(c.text, PromptTruncLen) \o <<"...">>
              /\ Len(NewCall.prompt.subsections) =
                     Cardinality({i \in DOMAIN nodes[N].children :
                                     ~Falsy(nodes[nodes[N].children[i]].summary)})
              /\ \A i \in DOMAIN nodes[N].children :
                    LET ch == nodes[nodes[N].children[i]]
                    IN  ~Falsy(ch.summary) =>
                            \E j \in DOMAIN NewCall.prompt.subsections :
                                NewCall.prompt.subsections[j] =
                                    <<"- Section '">> \o ch.text \o <<"': ">> \o ch.summary]_vars

\* a finished pass in which a node with a child and a content element was called for
\* after the Summarizer had returned no text for one of them
C19_Witness ==
    /\ pc = "done"
    /\ \E i \in DOMAIN calls :
          /\ calls[i].kind = "section"
          /\ nodes[calls[i].node].children # <<>>
          /\ nodes[calls[i].node].content_elements # <<>>
          /\ \A x \in Parts(calls[i].node) : \E j \in 1..(i - 1) : calls[j].node = x
          /\ \E x \in Parts(calls[i].node) :
                 \E j \in 1..(i - 1) :
                     calls[j].node = x /\ ~calls[j].outcome.raises
                         /\ calls[j].outcome.content = None

\* ------------------------------------------------------------------ reference rule
\* how many nodes of the stream the build loop has gone through
Processed ==
    IF pc = "build" THEN idx - 1
    ELSE IF BuildFinished THEN Len(structural_nodes)
    ELSE 0

\* the earlier nodes of the stream that are shallower than its i-th node
ShallowerBefore(i) ==
    {j \in 1..(i - 1) :
        /\ nodes[structural_nodes[j]].level >= 1
        /\ nodes[structural_nodes[j]].level < nodes[structural_nodes[i]].level}

\* the parent by the reference rule: the most recent of them, or the root
ReferenceParent(i) ==
    IF ShallowerBefore(i) = {} THEN root
    ELSE structural_nodes[CHOOSE j \in ShallowerBefore(i) :
                              \A k \in ShallowerBefore(i) : k <= j]

\* C20: every node of the stream with level L > 0 that the build loop has gone
\* through has as its parent the most recent earlier node of the stream whose level
\* is in 1..L-1, and the root when there is no such node; it is a child of that
\* node and of no other.
C20_ReferenceRule ==
    \A i \in 1..Processed :
        LET n == structural_nodes[i]
        IN  nodes[n].level > 0 =>
                /\ nodes[n].parent = ReferenceParent(i)
                /\ \A op \in ChildPlaces(n) : op[1] = ReferenceParent(i)
                /\ ChildPlaces(n) # {}

\* a stream in which the third node skips the second, a node of its own level or
\* deeper, and goes to the first
C20_Witness ==
    /\ BuildFinished
    /\ \E i \in 3..Len(structural_nodes) :
          /\ nodes[structural_nodes[i - 1]].level >= nodes[structural_nodes[i]].level
          /\ nodes[structural_nodes[i]].parent = structural_nodes[i - 2]

\* ------------------------------------------------------------------ open ancestors
StreamLevel(i) == nodes[structural_nodes[i]].level

\* the nodes of the stream the build loop has attached so far
Attached == {i \in 1..Processed : StreamLevel(i) > 0}

\* C21: right after a node n of level L was attached, level_parents has the root at
\* level 0, n at level L and nothing above L. A node that arrives after n is never
\* attached beneath an earlier node deeper than L (open before n arrived or not), and
\* every node that arrives after n and before the next node of level <= L is a
\* descendant of n.
C21_DeeperSubtreesClosed ==
    /\ Processed >= 1 /\ Processed \in Attached =>
          /\ 0 \in DOMAIN level_parents /\ level_parents[0] = root
          /\ StreamLevel(Processed) \in DOMAIN level_parents
          /\ level_parents[StreamLevel(Processed)] = structural_nodes[Processed]
          /\ \A k \in DOMAIN level_parents : k <= StreamLevel(Processed)
    /\ \A i, j \in Attached :
          i < j =>
              /\ \A x \in 1..(i - 1) :
                    StreamLevel(x) > StreamLevel(i) =>
                        nodes[structural_nodes[j]].parent # structural_nodes[x]
              /\ (\A k \in (i + 1)..j : StreamLevel(k) > StreamLevel(i)) =>
                    structural_nodes[j] \in Descendants(structural_nodes[i], nodes)

\* the stream [sub_sec, sec, sub_sub_sec]: the sec closes the sub_sec, and the
\* sub_sub_sec that follows goes beneath the sec
C21_Witness ==
    /\ BuildFinished
    /\ \E x, i, j \in Attached :
          /\ x < i /\ i < j
          /\ StreamLevel(x) > StreamLevel(i)
          /\ StreamLevel(j) > StreamLevel(x)
          /\ nodes[structural_nodes[j]].parent = structural_nodes[i]
          /\ DOMAIN level_parents = {0, StreamLevel(i), StreamLevel(j)}

\* ------------------------------------------------------------------ pair merge, exactly
\* the input content element at position i is a fig or tab followed by a cap of its page
PairAt(i) ==
    /\ i + 1 <= Len(InputContent)
    /\ InputElem(InputContent[i]).label \in {Fig, Tab}
    /\ InputElem(InputContent[i + 1]).label = Cap
    /\ InputContent[i][1] = InputContent[i + 1][1]

\* the caps those pairs absorb
AbsorbedCaps == {InputContent[i + 1] : i \in {i \in DOMAIN InputContent : PairAt(i)}}

NotAbsorbedCap(k) == k \notin AbsorbedCaps

\* C22: after merge_figure_caption_pairs, the content sequence is the input content
\* without the caps that directly follow a fig or tab of their page, in the original
\* order; exactly those fig/tab nodes hold the merge (the snapshot of the fig/tab and
\* of that cap), every other node is as it was created, and no cap is absorbed by
\* two nodes; a fig/tab followed by a cap of another page stays unmerged and the cap
\* stays a node.
C22_PairsExactly ==
    pc = "merge_lists" =>
        /\ content_nodes = SelectSeq(InputContent, NotAbsorbedCap)
        /\ \A i \in DOMAIN InputContent :
              LET k == InputContent[i]
              IN  IF PairAt(i)
                  THEN /\ nodes[k].merged_elements =
                              <<InputElem(k), InputElem(InputContent[i + 1])>>
                       /\ nodes[k].label \in {Figure, Table}
                  ELSE nodes[k] = create_node_from_element(InputElem(k))
        /\ \A c \in InputKeys :
              Cardinality({n \in DOMAIN nodes :
                              \E j \in 2..Len(nodes[n].merged_elements) :
                                  nodes[n].merged_elements[j] = InputElem(c)}) <= 1

\* a fig with the cap of its page merged, next to a tab whose cap is on the next page
C22_Witness ==
    /\ pc = "merge_lists"
    /\ \E i, j \in DOMAIN InputContent :
          /\ PairAt(i)
          /\ ~PairAt(j)
          /\ j + 1 <= Len(InputContent)
          /\ InputElem(InputContent[j]).label = Tab
          /\ InputElem(InputContent[j + 1]).label = Cap
          /\ nodes[InputContent[j]].label = Tab
          /\ InputContent[j + 1] \in Range(content_nodes)

\* ------------------------------------------------------------------ list runs
ListDerived(n) == n.label \in {List, ListGroup}

\* the reading_order of the last constituent of a list-derived node
LastOrder(n) ==
    IF n.merged_elements = <<>> THEN n.reading_order
    ELSE n.merged_elements[Len(n.merged_elements)].reading_order

\* C23: the constituents of a list_group are lists of one page whose reading_order
\* goes up by exactly one from each to the next; and the runs are maximal: after
\* merge_consecutive_lists no two adjacent content nodes are both list or list_group,
\* on the same page, with the second's reading_order one more than the reading_order
\* of the first's last constituent.
C23_ListRuns ==
    ListsMerged =>
        /\ \A n \in DOMAIN nodes :
              nodes[n].label = ListGroup =>
                  LET m == nodes[n].merged_elements
                  IN  /\ Len(m) >= 2
                      /\ m[1].label = List
                      /\ \A j \in 2..Len(m) :
                            /\ m[j].label = List
                            /\ m[j].page = m[j - 1].page
                            /\ m[j].reading_order = m[j - 1].reading_order + 1
        /\ \A i \in 1..(Len(content_nodes) - 1) :
              LET a == nodes[content_nodes[i]]
                  b == nodes[content_nodes[i + 1]]
              IN  ~(/\ ListDerived(a)
                    /\ ListDerived(b)
                    /\ a.page = b.page
                    /\ b.reading_order = LastOrder(a) + 1)

\* a group of two lists, then a list of the same page after a gap, then a list of
\* the next page with the next reading_order
C23_Witness ==
    /\ pc = "done"
    /\ \E i \in 1..(Len(content_nodes) - 2) :
          LET a == nodes[content_nodes[i]]
              b == nodes[content_nodes[i + 1]]
              c == nodes[content_nodes[i + 2]]
          IN  /\ a.label = ListGroup
              /\ b.label = List /\ b.page = a.page /\ b.reading_order > LastOrder(a) + 1
              /\ c.label = List /\ c.page # b.page /\ c.reading_order = b.reading_order + 1

\* ------------------------------------------------------------------ conservation
\* the content sequence with every merged node replaced by its snapshots
RECURSIVE Expand(_, _)
Expand(ids, heap) ==
    IF ids = <<>> THEN <<>>
    ELSE (IF heap[Head(ids)].merged_elements # <<>>
          THEN heap[Head(ids)].merged_elements
          ELSE <<Snapshot(heap[Head(ids)])>>)
         \o Expand(Tail(ids), heap)

\* the input content elements in document order
InputContentElems == [i \in DOMAIN InputContent |-> InputElem(InputContent[i])]

MergeHappened == \E c \in Range(content_nodes) : nodes[c].merged_elements # <<>>

\* C24: after each of the two merge passes the content sequence is no longer than
\* the input content, and shorter when a node of it holds a merge; replacing every
\* merged node by its merged_elements and keeping the others as they are gives back
\* the input content elements (label, text, page, reading_order), each once and in
\* document order.
C24_MergesConserve ==
    PairsMerged =>
        /\ Len(content_nodes) <= Len(InputContent)
        /\ MergeHappened => Len(content_nodes) < Len(InputContent)
        /\ ~MergeHappened => Len(content_nodes) = Len(InputContent)
        /\ Expand(content_nodes, nodes) = InputContentElems

\* both passes merged: a figure with its caption and a group of lists
C24_Witness ==
    /\ ListsMerged
    /\ \E a, b, c \in Range(content_nodes) :
          /\ nodes[a].label \in {Figure, Table}
          /\ nodes[b].label = ListGroup
          /\ nodes[c].merged_elements = <<>>
    /\ Len(content_nodes) + 2 = Len(InputContent)

\* ------------------------------------------------------------------ frame of the pass
\* a node without its summary
Unsummarized(n) == [n EXCEPT !.summary = None]

InPass == pc = "summaries" \/ pc' = "summaries"

\* C25: a step of the summarization pass (its start and its end included) changes
\* no node but in its summary, adds and removes no node and leaves the root and the
\* lists of the builder alone, whatever the Summarizer does; a summary changes only
\* in a step that calls the Summarizer for that node, and no node is called for
\* twice in one pass.
C25_OnlySummaries ==
    [][InPass =>
          /\ DOMAIN nodes' = DOMAIN nodes
          /\ \A id \in DOMAIN nodes : Unsummarized(nodes'[id]) = Unsummarized(nodes[id])
          /\ UNCHANGED <<root, all_elements, structural_nodes, content_nodes, json_data>>
          /\ \A id \in DOMAIN nodes :
                nodes'[id].summary # nodes[id].summary =>
                    /\ Len(calls') = Len(calls) + 1
                    /\ NewCall.node = id
          /\ calls' # calls =>
                /\ Len(calls') = Len(calls) + 1
                /\ SubSeq(calls', 1, Len(calls)) = calls
                /\ NewCall.pass = pass_no
                /\ CallsFor(NewCall.node, pass_no) = {}]_vars

\* two passes are over, a leaf with a long text and a section were called for, and
\* a node was called for in both passes
C25_Witness ==
    /\ pc = "done"
    /\ pass_no = 2
    /\ \E i, j \in DOMAIN calls :
          /\ calls[i].kind = "leaf"
          /\ Len(nodes[calls[i].node].text) > LeafTruncLen
          /\ calls[j].kind = "section"
    /\ \E id \in DOMAIN nodes : CallsFor(id, 1) # {} /\ CallsFor(id, 2) # {}

\* ------------------------------------------------------------------ task life cycle
Finished(t) == tasks[t].status \in {COMPLETED, FAILED}

\* C26: a task starts PENDING and its status changes only from PENDING to PROCESSING
\* and from PROCESSING to COMPLETED or FAILED, under every interleaving of
\* submissions, worker steps, start_worker and stop_worker (task ids are new uuid4
\* values, so each is submitted once); a COMPLETED or FAILED task never changes
\* again in status, result or error; a result is present only on COMPLETED tasks and
\* an error only on FAILED ones.
C26_StatusMoves ==
    /\ [](\A t \in DOMAIN tasks :
            /\ tasks[t].result # None => tasks[t].status = COMPLETED
            /\ tasks[t].error # None => tasks[t].status = FAILED)
    /\ [][/\ DOMAIN tasks \subseteq DOMAIN tasks'
          /\ \A t \in DOMAIN tasks' \ DOMAIN tasks : tasks'[t].status = PENDING
          /\ \A t \in DOMAIN tasks :
                /\ tasks'[t].status # tasks[t].status =>
                      \/ tasks[t].status = PENDING /\ tasks'[t].status = PROCESSING
                      \/ tasks[t].status = PROCESSING /\ tasks'[t].status \in {COMPLETED, FAILED}
                /\ Finished(t) => tasks'[t] = tasks[t]]_vars

\* one task COMPLETED with its result, one FAILED with its error, one PROCESSING
C26_Witness ==
    \E a, b, c \in DOMAIN tasks :
        /\ tasks[a].status = COMPLETED /\ tasks[a].result # None /\ tasks[a].error = None
        /\ tasks[b].status = FAILED /\ tasks[b].error # None /\ tasks[b].result = None
        /\ tasks[c].status = PROCESSING

\* C27: while the worker runs, at most one task is PROCESSING, and a task that has
\* left PENDING has every task submitted before it COMPLETED or FAILED (tasks are
\* numbered in submission order).
C27_OneAtATimeFifo ==
    worker_task \in {"get", "run", "upload"} =>
        /\ StatusCount(PROCESSING) <= 1
        /\ \A t \in DOMAIN tasks :
              tasks[t].status # PENDING => \A u \in 1..(t - 1) : Finished(u)

\* C28: the tasks_processed that get_worker_status reports is the number of tasks
\* that are COMPLETED or FAILED, and its pending, processing, completed and failed
\* counts add up to total_tasks.
C28_StatusCounts ==
    LET status == get_worker_status
    IN  /\ status.tasks_processed = Cardinality({t \in DOMAIN tasks : Finished(t)})
        /\ status.pending_tasks + status.processing_tasks + status.completed_tasks
               + status.failed_tasks = status.total_tasks

C28_Witness ==
    /\ get_worker_status.tasks_processed = 2
    /\ get_worker_status.completed_tasks = 1
    /\ get_worker_status.failed_tasks = 1
    /\ get_worker_status.processing_tasks = 1
    /\ ~get_worker_status.worker_alive

Submitted(t) == t \in DOMAIN tasks

\* C29: when stop_worker is not called and the worker is started, every submitted
\* task is eventually COMPLETED or FAILED, also the tasks queued behind a task that
\* failed in the processing or in the upload.
C29_EveryTaskFinishes ==
    \A t \in 1..MaxTasks : Submitted(t) ~> (Submitted(t) /\ Finished(t))

C29_Witness ==
    /\ blob_manager
    /\ Len(tasks) = 3
    /\ tasks[1].status = FAILED
    /\ tasks[2].status = FAILED
    /\ tasks[3].status = COMPLETED
    /\ tasks[3].result = <<"output_url", "url">>

\* the worker has taken the task and its attempt (lines 204-246) is over
AttemptEnded(t) == tasks[t].status # PENDING /\ task_data # t

\* C30: the temporary file of a task has been cleaned up exactly once when the
\* worker took the task and the attempt is over (returned, raised or cancelled), and
\* not at all before: not while the task is PENDING or in the attempt, and not by
\* the request that submits it. The clean-up is done in the step that ends the
\* attempt.
C30_CleanedOnce ==
    /\ [](\A t \in DOMAIN tasks :
             /\ cleanups[t] = IF AttemptEnded(t) THEN 1 ELSE 0
             /\ t \in temp_files <=> cleanups[t] = 0)
    /\ [][/\ \A t \in DOMAIN tasks :
                cleanups'[t] # cleanups[t] =>
                    /\ task_data = t
                    /\ worker_task \in {"run", "upload"}
                    /\ tasks[t].status = PROCESSING
          /\ Len(tasks') > Len(tasks) =>
                /\ cleanups'[Len(tasks')] = 0
                /\ Len(tasks') \in temp_files']_vars

C30_Witness ==
    /\ Len(tasks) = 3
    /\ Finished(1)
    /\ tasks[2].status = PROCESSING
    /\ tasks[3].status = PENDING
    /\ worker_task = "done"
    /\ cleanups = <<1, 1, 0>>
    /\ temp_files = {3}

====
